---- MODULE Spec2Model ----
(***************************************************************************)
(* A model of punchcard's two core facilities:                             *)
(*   - the Enumerable stage chain (map / flatMap / batched / run and the   *)
(*     terminals forEach / forBatch / toSink), and                         *)
(*   - the DynamoDBClient (writeKey / readKey / get / put / putIf /        *)
(*     batchPut / query) over a key-value store.                           *)
(***************************************************************************)
EXTENDS Integers, Sequences, FiniteSets, TLC

VARIABLES
    \* ---- Enumerable chain (definition time) ----
    arrays,     \* heap of dependency arrays; a reference is an index into it
    stages,     \* the chain: stages[1] is the source, stages[i].previous = i-1
    unit,       \* the Function spawned by forEach (or NoUnit)
    \* ---- one invocation of the unit ----
    pc,         \* "idle" | "running" | "done"
    event,      \* the event the unit was invoked with
    src,        \* records of the event the source has not yielded yet
    gen,        \* per stage: state of the generator created by f
    runDeps,    \* per stage: the client list its run was called with
    fClient,    \* per stage: the client its f was called with
    inflight,   \* values whose input.handle has started and not yet finished
    drained,    \* values the for-await loop of the unit has taken from run
    handleCalls,\* invocations of input.handle, in order: <<value, client>>
    sinkLog,    \* calls of sink.sink, in order: <<values, client>>
    \* ---- DynamoDBClient and the table behind it ----
    key,        \* the key definition the client was constructed with
    table,      \* the store: the set of items (wire format), one per key
    op,         \* the last call on the client and its arguments
    out,        \* what that call returned or threw
    q,          \* what the last query compiled and submitted
    lastPut,    \* per key, the record of the most recent put (history)
    putsOnly    \* TRUE while every write so far was a put

streamVars == <<arrays, stages, unit, pc, event, src, gen, runDeps, fClient,
                inflight, drained, handleCalls, sinkLog>>

kvVars == <<key, table, op, out, q, lastPut, putsOnly>>

vars == <<streamVars, kvVars>>

-----------------------------------------------------------------------------
(* Bounds *)
MaxStages == 2      \* stages chained after the source
MaxEvent  == 5      \* records in one event
MaxSize   == 3      \* largest batched(size)
MaxBatch  == 2      \* records in one batchPut

(* Small input sets *)
DepNames    == <<"D1", "D2", "D3", "D4", "D5", "D6">>
NoDep       == "none"                 \* input.depends === undefined
SinkDep     == "S"                    \* the sink given to toSink
MapHandlers == {"f", "g"}             \* input.handle of map
FlatHandlers == {"nil", "dup"}        \* input.handle of flatMap
EachHandler == "h"                    \* input.handle of forEach / forBatch
SinkHandler == "sink"                 \* toSink's handle: sink.sink(values)

Client(d)       == <<"client", d>>    \* the client a dependency resolves to
UndefinedClient == <<>>               \* undefined

NoUnit == [made |-> FALSE, depends |-> NoDep, handle |-> "", deps |-> <<>>]

\* a list without its index 0
TailOf(s) == [k \in 1..(Len(s) - 1) |-> s[k + 1]]

RECURSIVE Concat(_)
Concat(ss) == IF ss = <<>> THEN <<>> ELSE Head(ss) \o Concat(Tail(ss))

-----------------------------------------------------------------------------
(* JavaScript values: a value is the set of its <<path, primitive>> leaves,  *)
(* so a string is {<<<<>>, s>>}, {key: "a"} is {<<<<"key">>, "a">>} and      *)
(* undefined (or a missing property) is {}.                                  *)

Undefined   == {}
Prim(a)     == { <<<<>>, a>> }
Prop(n, v)  == { <<<<n>> \o p[1], p[2]>> : p \in v }            \* {n: v}
Field(o, n) == { <<Tail(p[1]), p[2]>> :                         \* o[n]
                   p \in { x \in o : x[1] # <<>> /\ Head(x[1]) = n } }
Arr2(a, b)  == Prop("0", a) \cup Prop("1", b) \cup Prop("length", Prim("2"))

HashVals == {"a", "b"}
SortVals == {"x", "y"}
Vals     == {"1", "2"}

HashOnly  == [kind |-> "string", hk |-> "key", sk |-> ""]       \* 'key'
Composite == [kind |-> "array",  hk |-> "key", sk |-> "sk"]     \* ['key', 'sk']
KeyDefs   == {HashOnly, Composite}

\* Shape.of(type).Members: the record's fields, all strings
Members == IF key.kind = "string" THEN {"key", "val"} ELSE {"key", "sk", "val"}
KeyMembers == IF key.kind = "string" THEN {key.hk} ELSE {key.hk, key.sk}

\* Value.Of<T>: the records callers store (under a composite key, all in
\* one partition)
Records ==
    IF key.kind = "string"
    THEN { Prop("key", Prim(h)) \cup Prop("val", Prim(v)) :
             h \in HashVals, v \in Vals }
    ELSE { Prop("key", Prim("a")) \cup Prop("sk", Prim(s)) \cup Prop("val", Prim(v)) :
             s \in SortVals, v \in Vals }

\* DynamoDBClient.KeyValue<T, K>: a bare hash value, or the pair [hash, sort]
KeyValues ==
    IF key.kind = "string"
    THEN { Prim(h) : h \in HashVals }
    ELSE { Arr2(Prim(h), Prim(s)) : h \in HashVals, s \in SortVals }

\* the key value of a record
KeyValueOf(r) ==
    IF key.kind = "string" THEN Field(r, key.hk)
    ELSE Arr2(Field(r, key.hk), Field(r, key.sk))

-----------------------------------------------------------------------------
(* Mapper: the codec between values and the store's attribute values *)

\* Mapper.of(string): "a" <-> {S: "a"}
MapperWrite(v) == Prop("S", v)
MapperRead(w)  == Field(w, "S")

\* Mapper.of(type): record <-> {M: {field: {S: ...}, ...}}
RecordWrite(r) ==
    Prop("M", UNION { Prop(m, MapperWrite(Field(r, m))) : m \in Members })
RecordRead(w) ==
    UNION { Prop(m, MapperRead(Field(Field(w, "M"), m))) : m \in Members }

-----------------------------------------------------------------------------
(* DynamoDBClient: the constructor *)

\* declared members the constructor never assigns
NotAssigned   == "undefined"
hashKeyName   == NotAssigned
sortKeyName   == NotAssigned
hashKeyMapper == NotAssigned
sortKeyMapper == NotAssigned

\* writeKey forgetting the sort field
writeKeyHashOnly(k) ==
    Prop(key.hk, MapperWrite(IF key.kind = "string" THEN k ELSE Field(k, "0")))

writeKey(k) ==
    IF key.kind = "string"
    THEN Prop(key.hk, MapperWrite(k))
    ELSE Prop(key.hk, MapperWrite(Field(k, "0")))
         \cup Prop(key.sk, MapperWrite(Field(k, "1")))

readKey(k) ==
    IF key.kind = "string"
    THEN Prop(key.hk, MapperRead(Field(k, key.hk)))
    ELSE Prop(key.hk, MapperRead(Field(k, key.hk)))
         \cup Prop(key.sk, MapperRead(Field(k, key.sk)))

-----------------------------------------------------------------------------
(* Conditions (DSL nodes) and their compilation through a Writer *)

\* the conditions and filters callers pass:  item => item.val.equals("1"), ...
CondList == <<
    <<"=", "val", "1">>,
    <<"=", "val", "2">>,
    <<"attribute_not_exists", "key">>,
    <<"and", <<"=", "key", "a">>, <<"=", "val", "1">>>>,
    <<"not", <<"=", "val", "1">>>> >>

\* new Writer.Namespace(): the counters behind #n0, #n1, ... and :v0, :v1, ...
NewNamespace == [n |-> 0, v |-> 0]

\* new Writer(namespace): its own name and value maps over the shared counters
NewWriter(ns) == [ns |-> ns, names |-> <<>>, values |-> <<>>]

\* the placeholder of a path: one per distinct path of this writer
WriteName(w, path) ==
    IF \E i \in 1..Len(w.names) : w.names[i][2] = path
    THEN [w |-> w,
          tok |-> w.names[CHOOSE i \in 1..Len(w.names) : w.names[i][2] = path][1]]
    ELSE [w |-> [w EXCEPT !.ns.n = @ + 1,
                          !.names = Append(@, << <<"#n", w.ns.n>>, path >>)],
          tok |-> <<"#n", w.ns.n>>]

\* the placeholder of a literal (wire-encoded): one per distinct literal
WriteValue(w, wire) ==
    IF \E i \in 1..Len(w.values) : w.values[i][2] = wire
    THEN [w |-> w,
          tok |-> w.values[CHOOSE i \in 1..Len(w.values) : w.values[i][2] = wire][1]]
    ELSE [w |-> [w EXCEPT !.ns.v = @ + 1,
                          !.values = Append(@, << <<":v", w.ns.v>>, wire >>)],
          tok |-> <<":v", w.ns.v>>]

\* node[DSL.Synthesize](writer): [w, expr], expr the written expression
RECURSIVE Synthesize(_, _)
Synthesize(c, w) ==
    CASE c[1] = "=" ->
            LET a == WriteName(w, c[2])
                b == WriteValue(a.w, MapperWrite(Prim(c[3])))
            IN [w |-> b.w, expr |-> <<"=", a.tok, b.tok>>]
      [] c[1] = "attribute_not_exists" ->
            LET a == WriteName(w, c[2])
            IN [w |-> a.w, expr |-> <<"attribute_not_exists", a.tok>>]
      [] c[1] = "not" ->
            LET a == Synthesize(c[2], w)
            IN [w |-> a.w, expr |-> <<"not", a.expr>>]
      [] OTHER ->
            LET a == Synthesize(c[2], w)
                b == Synthesize(c[3], a.w)
            IN [w |-> b.w, expr |-> <<"and", a.expr, b.expr>>]

\* writer.toExpression()
ToExpression(r) ==
    [Expression |-> r.expr,
     ExpressionAttributeNames |-> r.w.names,
     ExpressionAttributeValues |-> r.w.values]

\* Condition.compile(node): a writer over a namespace of its own
ConditionCompile(c) == ToExpression(Synthesize(c, NewWriter(NewNamespace)))

NoExpression ==
    [Expression |-> <<>>, ExpressionAttributeNames |-> <<>>,
     ExpressionAttributeValues |-> <<>>]

\* the placeholders an expression mentions
RECURSIVE Placeholders(_)
Placeholders(e) ==
    CASE e = <<>> -> {}
      [] e[1] = "=" -> {e[2], e[3]}
      [] e[1] = "attribute_not_exists" -> {e[2]}
      [] e[1] = "not" -> Placeholders(e[2])
      [] OTHER -> Placeholders(e[2]) \cup Placeholders(e[3])

-----------------------------------------------------------------------------
(* The store (AWS.DynamoDB) *)

\* the key attributes of an item
ItemKey(item) == UNION { Prop(m, Field(item, m)) : m \in KeyMembers }

\* the items stored under a key: none or one
Stored(t, k) == { i \in t : ItemKey(i) = k }

\* the item stored under k as one value, Undefined when there is none
StoredItem(t, k) == UNION Stored(t, k)

Lookup(pairs, tok, none) ==
    IF \E i \in 1..Len(pairs) : pairs[i][1] = tok
    THEN pairs[CHOOSE i \in 1..Len(pairs) : pairs[i][1] = tok][2]
    ELSE none

\* the attribute of an item a name placeholder stands for
Attribute(item, names, tok) == Field(item, Lookup(names, tok, ""))

\* an expression is valid when every placeholder it mentions is given
ExprValid(e, names, values) ==
    \A t \in Placeholders(e) :
        \E i \in 1..Len(names \o values) : (names \o values)[i][1] = t

\* the value of a valid expression on an item (Undefined: no item)
RECURSIVE ExprHolds(_, _, _, _)
ExprHolds(e, names, values, item) ==
    CASE e[1] = "=" ->
            /\ Attribute(item, names, e[2]) # Undefined
            /\ Attribute(item, names, e[2]) = Lookup(values, e[3], Undefined)
      [] e[1] = "attribute_not_exists" ->
            Attribute(item, names, e[2]) = Undefined
      [] e[1] = "not" -> ~ExprHolds(e[2], names, values, item)
      [] OTHER -> /\ ExprHolds(e[2], names, values, item)
                  /\ ExprHolds(e[3], names, values, item)

\* putItem: the table afterwards
PutItem(t, item) == (t \ Stored(t, ItemKey(item))) \cup {item}

\* putItem with a ConditionExpression: the error it throws, "" for none
PutItemError(t, req) ==
    IF req.ConditionExpression = <<>> THEN ""
    ELSE IF ~ExprValid(req.ConditionExpression, req.ExpressionAttributeNames,
                       req.ExpressionAttributeValues)
    THEN "ValidationException"
    ELSE IF ExprHolds(req.ConditionExpression, req.ExpressionAttributeNames,
                      req.ExpressionAttributeValues,
                      StoredItem(t, ItemKey(req.Item)))
    THEN ""
    ELSE "ConditionalCheckFailedException"

-----------------------------------------------------------------------------
(* DynamoDBClient: the operations *)

NoOp == [name |-> "", item |-> Undefined, key |-> Undefined, cond |-> 0,
         batch |-> <<>>, rejected |-> {}, shape |-> ""]

NoOut == [error |-> "", item |-> Undefined, defined |-> TRUE, list |-> <<>>]

NoRequest == [KeyConditionExpression |-> <<>>, FilterExpression |-> <<>>,
              ExpressionAttributeNames |-> <<>>,
              ExpressionAttributeValues |-> <<>>,
              ExclusiveStartKey |-> Undefined]

NoQuery == [filter |-> NoExpression, keyCond |-> NoExpression,
            submitted |-> FALSE, request |-> NoRequest]

NoHistory == [k \in KeyValues |-> Undefined]

\* a caller decoding the key it has just encoded
readWriteKey(k) ==
    /\ op' = [NoOp EXCEPT !.name = "readWriteKey", !.key = k]
    /\ out' = [NoOut EXCEPT !.item = readKey(writeKey(k))]
    /\ q' = NoQuery
    /\ UNCHANGED <<key, table, lastPut, putsOnly, streamVars>>

\* the keys the store holds and returns: LastEvaluatedKey, ExclusiveStartKey
WireKeys == { writeKey(k) : k \in KeyValues }

\* a caller paging: the store's key decoded by readKey, handed back unchanged
\* and encoded by writeKey
writeReadKey(w) ==
    /\ op' = [NoOp EXCEPT !.name = "writeReadKey", !.key = w]
    /\ out' = [NoOut EXCEPT !.item = writeKey(readKey(w))]
    /\ q' = NoQuery
    /\ UNCHANGED <<key, table, lastPut, putsOnly, streamVars>>

\* get: getItem under writeKey(key); the record read back, or undefined
GetResult(Item) ==
    IF Item # Undefined THEN RecordRead(Prop("M", Item)) ELSE Undefined

get(k) ==
    /\ op' = [NoOp EXCEPT !.name = "get", !.key = k]
    /\ out' = [NoOut EXCEPT !.item = GetResult(StoredItem(table, writeKey(k)))]
    /\ q' = NoQuery
    /\ UNCHANGED <<key, table, lastPut, putsOnly, streamVars>>

\* the putItem request of put
PutRequest(item) ==
    [Item |-> Field(RecordWrite(item), "M"),
     ConditionExpression |-> <<>>,
     ExpressionAttributeNames |-> <<>>,
     ExpressionAttributeValues |-> <<>>]

put(item) ==
    /\ op' = [NoOp EXCEPT !.name = "put", !.item = item]
    /\ out' = NoOut
    /\ table' = PutItem(table, PutRequest(item).Item)
    /\ lastPut' = IF putsOnly THEN [lastPut EXCEPT ![KeyValueOf(item)] = item]
                  ELSE lastPut
    /\ q' = NoQuery
    /\ UNCHANGED <<key, putsOnly, streamVars>>

\* putIf leaving the condition's values out of the request
PutIfRequestNoValues(item, condition) ==
    LET expr == ConditionCompile(condition) IN
    [Item |-> Field(RecordWrite(item), "M"),
     ConditionExpression |-> expr.Expression,
     ExpressionAttributeNames |-> expr.ExpressionAttributeNames,
     ExpressionAttributeValues |-> <<>>]

\* the putItem request of putIf
PutIfRequest(item, condition) ==
    LET expr == ConditionCompile(condition) IN
    [Item |-> Field(RecordWrite(item), "M"),
     ConditionExpression |-> expr.Expression,
     ExpressionAttributeNames |-> expr.ExpressionAttributeNames,
     ExpressionAttributeValues |-> expr.ExpressionAttributeValues]

putIf(item, c) ==
    LET req == PutIfRequest(item, CondList[c])
        err == PutItemError(table, req)
    IN /\ op' = [NoOp EXCEPT !.name = "putIf", !.item = item, !.cond = c]
       /\ out' = [NoOut EXCEPT !.error = err]       \* the rejection is not caught
       /\ table' = IF err = "" THEN PutItem(table, req.Item) ELSE table
       /\ lastPut' = NoHistory
       /\ putsOnly' = FALSE
       /\ q' = NoQuery
       /\ UNCHANGED <<key, streamVars>>

\* the batches callers put: records of pairwise distinct keys (the store
\* refuses a batch that names a key twice)
Batches ==
    { b \in UNION { [1..n -> Records] : n \in 1..MaxBatch } :
        \A i, j \in 1..Len(b) : i # j => KeyValueOf(b[i]) # KeyValueOf(b[j]) }

\* the RequestItems entry of batchPut
BatchPutRequests(batch) ==
    [i \in 1..Len(batch) |-> Prop("PutRequest", Prop("Item", Field(RecordWrite(batch[i]), "M")))]

\* batchWriteItem: the table after the requests not rejected are applied
RECURSIVE BatchWrite(_, _, _, _)
BatchWrite(t, reqs, rejected, i) ==
    IF i > Len(reqs) THEN t
    ELSE BatchWrite(IF i \in rejected THEN t
                    ELSE PutItem(t, Field(Field(reqs[i], "PutRequest"), "Item")),
                    reqs, rejected, i + 1)

\* the requests rejected, in request order
RECURSIVE Unprocessed(_, _, _)
Unprocessed(reqs, rejected, i) ==
    IF i > Len(reqs) THEN <<>>
    ELSE (IF i \in rejected THEN <<reqs[i]>> ELSE <<>>)
         \o Unprocessed(reqs, rejected, i + 1)

\* batchWriteItem's answer: UnprocessedItems maps each table that has
\* unprocessed requests to them; a store that processed everything answers
\* with an empty map ("map") or leaves the member out ("absent")
BatchWriteOutput(reqs, rejected, shape) ==
    [hasUnprocessedItems |-> rejected # {} \/ shape = "map",
     hasTable |-> rejected # {},
     entry |-> Unprocessed(reqs, rejected, 1)]

\* what batchPut returns for the store's answer
BatchPutResult(result) ==
    IF ~result.hasUnprocessedItems THEN [defined |-> TRUE, list |-> <<>>]
    ELSE IF result.hasTable THEN [defined |-> TRUE, list |-> result.entry]
    ELSE [defined |-> FALSE, list |-> <<>>]     \* UnprocessedItems[tableName]

batchPut(batch, rejected, shape) ==
    LET reqs == BatchPutRequests(batch)
        res == BatchPutResult(BatchWriteOutput(reqs, rejected, shape))
    IN /\ op' = [NoOp EXCEPT !.name = "batchPut", !.batch = batch,
                             !.rejected = rejected, !.shape = shape]
       /\ out' = [NoOut EXCEPT !.defined = res.defined, !.list = res.list]
       /\ table' = BatchWrite(table, reqs, rejected, 1)
       /\ lastPut' = NoHistory
       /\ putsOnly' = FALSE
       /\ q' = NoQuery
       /\ UNCHANGED <<key, streamVars>>

\* the sort-key conditions callers pass as condition[1]
SortCondList == << <<"=", "sk", "x">> >>

\* store.query: the items the key condition and the filter select
QueryItems(t, req) ==
    { i \in t :
        /\ ExprHolds(req.KeyConditionExpression, req.ExpressionAttributeNames,
                     req.ExpressionAttributeValues, i)
        /\ req.FilterExpression # <<>> =>
              ExprHolds(req.FilterExpression, req.ExpressionAttributeNames,
                        req.ExpressionAttributeValues, i) }

QueryError(req) ==
    IF /\ ExprValid(req.KeyConditionExpression, req.ExpressionAttributeNames,
                    req.ExpressionAttributeValues)
       /\ ExprValid(req.FilterExpression, req.ExpressionAttributeNames,
                    req.ExpressionAttributeValues)
    THEN "" ELSE "ValidationException"

\* query(condition, {exclusiveStartKey, filter}): hv is the hash value, sc
\* the sort condition (0: condition is no array), fi the filter (0: none),
\* esk the exclusiveStartKey (Undefined: none)
query(hv, sc, fi, esk) ==
    LET namespace   == NewNamespace
        filterW     == IF fi = 0 THEN [w |-> NewWriter(namespace), expr |-> <<>>]
                       ELSE Synthesize(CondList[fi], NewWriter(namespace))
        filterExpr  == IF fi = 0 THEN NoExpression ELSE ToExpression(filterW)
        \* the counters both writers share, as the filter left them
        shared      == filterW.w.ns
    IN IF hashKeyMapper = NotAssigned
       THEN \* this.hashKeyMapper.write: TypeError, before the key condition
            /\ op' = [NoOp EXCEPT !.name = "query", !.key = Prim(hv),
                                  !.cond = fi]
            /\ out' = [NoOut EXCEPT !.error = "TypeError"]
            /\ q' = [NoQuery EXCEPT !.filter = filterExpr]
            /\ UNCHANGED <<key, table, lastPut, putsOnly, streamVars>>
       ELSE LET hashKeyCond == <<"=", hashKeyName, hv>>
                node        == IF sc = 0 THEN hashKeyCond
                               ELSE <<"and", hashKeyCond, SortCondList[sc]>>
                queryExpr   == ToExpression(Synthesize(node, NewWriter(shared)))
                req == [KeyConditionExpression |-> queryExpr.Expression,
                        FilterExpression |-> filterExpr.Expression,
                        ExpressionAttributeNames |-> queryExpr.ExpressionAttributeNames,
                        ExpressionAttributeValues |-> queryExpr.ExpressionAttributeValues,
                        ExclusiveStartKey |-> IF esk = Undefined THEN Undefined
                                              ELSE writeKey(esk)]
            IN /\ op' = [NoOp EXCEPT !.name = "query", !.key = Prim(hv),
                                     !.cond = fi]
               /\ out' = IF QueryError(req) # ""
                         THEN [NoOut EXCEPT !.error = QueryError(req)]
                         ELSE [NoOut EXCEPT !.item =
                                 UNION { RecordRead(Prop("M", i)) : i \in QueryItems(table, req) }]
               /\ q' = [filter |-> filterExpr, keyCond |-> queryExpr,
                        submitted |-> TRUE, request |-> req]
               /\ UNCHANGED <<key, table, lastPut, putsOnly, streamVars>>

-----------------------------------------------------------------------------
(* Enumerable: building the chain *)

NoHandle == <<"", "">>

Source == [kind |-> "source", handle |-> NoHandle, size |-> 0,
           depends |-> NoDep, dependencies |-> 1]

Top == Len(stages)

\* Enumerable.chain: a new stage wrapping this one (previous = Top), holding
\* the array `ref` as its dependencies. `fresh` is the array a caller has
\* just allocated, <<>> when it passed an existing one.
chain(kind, handle, size, depends, ref, fresh) ==
    /\ stages' = Append(stages, [kind |-> kind, handle |-> handle, size |-> size,
                                 depends |-> depends, dependencies |-> ref])
    /\ arrays' = IF ref > Len(arrays) THEN Append(arrays, fresh) ELSE arrays

\* flatMap's `depends` argument of chain: this.dependencies itself when
\* input.depends is undefined, a new array [input.depends].concat(...) otherwise.
FlatMapDependsRef(d) ==
    IF d = NoDep THEN stages[Top].dependencies ELSE Len(arrays) + 1

\* the new array with the declared dependency put last
FlatMapDependsAppend(d) == arrays[stages[Top].dependencies] \o <<d>>

FlatMapDependsArray(d) == <<d>> \o arrays[stages[Top].dependencies]

CanChain == ~unit.made /\ Top < MaxStages + 1

\* The dependencies a call may declare: none, or one not declared before in
\* this chain (dependencies are opaque, so they are named D1, D2, ... in the
\* order of their declaration).
Declarable == {NoDep, DepNames[Len(arrays[stages[Top].dependencies]) + 1]}

flatMapOf(d, h) ==
    chain("flatMap", h, 0, d, FlatMapDependsRef(d), FlatMapDependsArray(d))

flatMap(d, h) ==
    /\ CanChain
    /\ flatMapOf(d, <<"flat", h>>)
    /\ UNCHANGED <<unit, pc, event, src, gen, runDeps, fClient,
                   inflight, drained, handleCalls, sinkLog, kvVars>>

\* map is flatMap with the handler  async (v, c) => [await input.handle(v, c)]
map(d, h) ==
    /\ CanChain
    /\ flatMapOf(d, <<"map", h>>)
    /\ UNCHANGED <<unit, pc, event, src, gen, runDeps, fClient,
                   inflight, drained, handleCalls, sinkLog, kvVars>>

batchedOf(size) ==
    chain("batched", NoHandle, size, NoDep, stages[Top].dependencies, <<>>)

batched(size) ==
    /\ CanChain
    /\ batchedOf(size)
    /\ UNCHANGED <<unit, pc, event, src, gen, runDeps, fClient,
                   inflight, drained, handleCalls, sinkLog, kvVars>>

-----------------------------------------------------------------------------
(* Handlers: uninterpreted, so a result shows which handlers made it *)

MapHandle(h, v) == <<h, v>>

\* h = <<"map", name>> is map's wrapper  async (v, c) => [await input.handle(v, c)]
FlatHandle(h, v) ==
    CASE h[1] = "map"  -> << MapHandle(h[2], v) >>
      [] h[2] = "nil"  -> <<>>
      [] OTHER         -> << <<h[2], 1, v>>, <<h[2], 2, v>> >>

-----------------------------------------------------------------------------
(* Enumerable.run *)

Slice1(s) == IF Len(s) <= 1 THEN <<>> ELSE SubSeq(s, 2, Len(s))

\* run never slicing
RunPreviousSame(this, previous, deps) == deps

\* the client list run hands to this.previous.run
RunPrevious(this, previous, deps) ==
    IF this.dependencies = previous.dependencies THEN deps ELSE Slice1(deps)

\* the client run hands to this.f:  deps ? deps[0] : undefined
RunClient(deps) == IF deps = <<>> THEN UndefinedClient ELSE deps[1]

\* run on the top stage with deps: the client list each stage's run receives
RunArgs(deps) ==
    LET ra[j \in 0..(Top - 1)] ==
            LET i == Top - j IN
            IF j = 0 THEN deps
            ELSE RunPrevious(stages[i + 1], stages[i], ra[j - 1])
    IN [i \in 1..Top |-> ra[Top - i]]

NewGen == [buf |-> <<>>, fin |-> FALSE]

\* flatMap yielding a handler's results last first
IterNextLast(buf) ==
    [val |-> buf[Len(buf)], rest |-> SubSeq(buf, 1, Len(buf) - 1)]

\* for (const mapped of await input.handle(...)) yield mapped
IterNext(buf) == [val |-> Head(buf), rest |-> Tail(buf)]

\* batched comparing with > in place of ===
BatchFullOver(size, batch) == size # 0 /\ Len(batch) > size

\* size && batch.length === size
BatchFull(size, batch) == size # 0 /\ Len(batch) = size

\* One next() on stage i's iterator. g is the generators' state and s the
\* source's remaining records; yields [ok, val, g, s] (ok = FALSE: exhausted).
RECURSIVE pull(_, _, _)
pull(i, g, s) ==
    IF stages[i].kind = "source" THEN
        IF s = <<>> THEN [ok |-> FALSE, val |-> <<>>, g |-> g, s |-> s]
        ELSE [ok |-> TRUE, val |-> Head(s), g |-> g, s |-> Tail(s)]
    ELSE IF stages[i].kind = "flatMap" THEN
        IF g[i].buf # <<>> THEN
            [ok |-> TRUE, val |-> IterNext(g[i].buf).val,
             g |-> [g EXCEPT ![i].buf = IterNext(@).rest], s |-> s]
        ELSE
            LET r == pull(i - 1, g, s) IN
            IF ~r.ok THEN r
            ELSE pull(i, [r.g EXCEPT ![i].buf = FlatHandle(stages[i].handle, r.val)], r.s)
    ELSE \* batched
        IF g[i].fin THEN [ok |-> FALSE, val |-> <<>>, g |-> g, s |-> s]
        ELSE
            LET r == pull(i - 1, g, s) IN
            IF ~r.ok THEN
                IF Len(g[i].buf) > 0
                THEN [ok |-> TRUE, val |-> g[i].buf,
                      g |-> [r.g EXCEPT ![i] = [buf |-> <<>>, fin |-> TRUE]], s |-> r.s]
                ELSE [ok |-> FALSE, val |-> <<>>,
                      g |-> [r.g EXCEPT ![i].fin = TRUE], s |-> r.s]
            ELSE
                LET batch == Append(g[i].buf, r.val) IN
                IF BatchFull(stages[i].size, batch)
                THEN [ok |-> TRUE, val |-> batch,
                      g |-> [r.g EXCEPT ![i].buf = <<>>], s |-> r.s]
                ELSE pull(i, [r.g EXCEPT ![i].buf = batch], r.s)

-----------------------------------------------------------------------------
(* Terminals: forEach, forBatch, toSink *)

\* forEach listing its own dependency last
ForEachDependsLast(d, ds) == IF d = NoDep THEN ds ELSE ds \o <<d>>

\* Dependency.list(...this.dependencies) / Dependency.list(input.depends, ...)
ForEachDepends(d, ds) == IF d = NoDep THEN ds ELSE <<d>> \o ds

forEachOf(d, h, stage) ==
    unit' = [made |-> TRUE, depends |-> d, handle |-> h,
             deps |-> ForEachDepends(d, arrays[stage.dependencies])]

forEach(d, h) ==
    /\ ~unit.made
    /\ forEachOf(d, h, stages[Top])
    /\ UNCHANGED <<arrays, stages, pc, event, src, gen, runDeps, fClient,
                   inflight, drained, handleCalls, sinkLog, kvVars>>

\* forBatch = this.batched().forEach(...)
forBatchOf(d, h) ==
    /\ batchedOf(0)
    /\ forEachOf(d, h, stages[Top])        \* batched() keeps this.dependencies

forBatch(d, h) ==
    /\ ~unit.made
    /\ forBatchOf(d, h)
    /\ UNCHANGED <<pc, event, src, gen, runDeps, fClient,
                   inflight, drained, handleCalls, sinkLog, kvVars>>

toSink ==
    /\ ~unit.made
    /\ forBatchOf(SinkDep, SinkHandler)
    /\ UNCHANGED <<pc, event, src, gen, runDeps, fClient,
                   inflight, drained, handleCalls, sinkLog, kvVars>>

-----------------------------------------------------------------------------
(* One invocation of the unit's handle *)

Events == { [i \in 1..n |-> i] : n \in 0..MaxEvent }

\* the executor resolves every dependency of the unit to its client
Resolved == [i \in 1..Len(unit.deps) |-> Client(unit.deps[i])]

\* what the unit's handle passes to this.run, and to input.handle
UnitRunDeps(deps) == IF unit.depends = NoDep THEN deps ELSE Slice1(deps)
UnitClient(deps)  == IF unit.depends = NoDep THEN UndefinedClient ELSE deps[1]

Invoke(ev) ==
    /\ unit.made /\ pc = "idle"
    /\ pc' = "running"
    /\ event' = ev
    /\ src' = ev
    /\ gen' = [i \in 1..Top |-> NewGen]
    /\ runDeps' = RunArgs(UnitRunDeps(Resolved))
    /\ fClient' = [i \in 1..Top |->
                     IF i = 1 THEN UndefinedClient ELSE RunClient(runDeps'[i])]
    /\ UNCHANGED <<arrays, stages, unit, inflight, drained, handleCalls, sinkLog, kvVars>>

\* forEach calling input.handle without await
NotAwaited == TRUE

\* `await input.handle(...)`: the loop takes the next value only when the
\* handler invocation it started has finished
Awaited == inflight = <<>>

\* the for-await loop takes the next value from run and calls input.handle
Drain ==
    /\ pc = "running" /\ Awaited
    /\ LET r == pull(Top, gen, src) IN
       /\ gen' = r.g
       /\ src' = r.s
       /\ IF r.ok THEN
            /\ drained' = Append(drained, r.val)
            /\ handleCalls' = Append(handleCalls, <<r.val, UnitClient(Resolved)>>)
            /\ inflight' = Append(inflight, r.val)
            /\ sinkLog' = IF unit.handle = SinkHandler
                          THEN Append(sinkLog, <<r.val, UnitClient(Resolved)>>)
                          ELSE sinkLog
            /\ pc' = pc
          ELSE
            /\ pc' = "done"
            /\ UNCHANGED <<drained, handleCalls, inflight, sinkLog>>
    /\ UNCHANGED <<arrays, stages, unit, event, runDeps, fClient, kvVars>>

\* an invocation of input.handle finishes
HandleReturn ==
    /\ inflight # <<>>
    /\ \E k \in 1..Len(inflight) :
          inflight' = [j \in 1..(Len(inflight) - 1) |->
                          IF j < k THEN inflight[j] ELSE inflight[j + 1]]
    /\ UNCHANGED <<arrays, stages, unit, pc, event, src, gen, runDeps, fClient,
                   drained, handleCalls, sinkLog, kvVars>>

-----------------------------------------------------------------------------
InitKV ==
    /\ key \in KeyDefs
    /\ table = {}
    /\ op = NoOp
    /\ out = NoOut
    /\ q = NoQuery
    /\ lastPut = NoHistory
    /\ putsOnly = TRUE

NextKV ==
    \/ \E k \in KeyValues : readWriteKey(k)
    \/ \E w \in WireKeys : writeReadKey(w)
    \/ \E k \in KeyValues : get(k)
    \/ \E item \in Records : put(item)
    \/ \E item \in Records, c \in 1..Len(CondList) : putIf(item, c)
    \/ \E batch \in Batches, rejected \in SUBSET (1..MaxBatch),
          shape \in {"map", "absent"} :
            /\ rejected \subseteq 1..Len(batch)
            /\ rejected # {} => shape = "map"
            /\ batchPut(batch, rejected, shape)
    \/ \E hv \in HashVals, sc \in 0..Len(SortCondList),
          fi \in 0..Len(CondList), esk \in KeyValues \cup {Undefined} :
            /\ sc # 0 => key.kind = "array"
            /\ query(hv, sc, fi, esk)

InitStream ==
    /\ arrays = << <<>> >>
    /\ stages = << Source >>
    /\ unit = NoUnit
    /\ pc = "idle"
    /\ event = <<>>
    /\ src = <<>>
    /\ gen = <<>>
    /\ runDeps = <<>>
    /\ fClient = <<>>
    /\ inflight = <<>>
    /\ drained = <<>>
    /\ handleCalls = <<>>
    /\ sinkLog = <<>>

NextStream ==
    \/ \E d \in Declarable, h \in MapHandlers : map(d, h)
    \/ \E d \in Declarable, h \in FlatHandlers : flatMap(d, h)
    \/ \E size \in 0..MaxSize : batched(size)
    \/ \E d \in Declarable : forEach(d, EachHandler)
    \/ \E d \in Declarable : forBatch(d, EachHandler)
    \/ toSink
    \/ \E ev \in Events : Invoke(ev)
    \/ Drain
    \/ HandleReturn

\* the client over its table
Init == InitKV /\ InitStream
Next == NextKV
Spec == Init /\ [][Next]_vars

\* the stage chain and the unit it is bound to
InitS == InitStream /\ InitKV /\ key = HashOnly
SpecStream == InitS /\ [][NextStream]_vars

-----------------------------------------------------------------------------
(* Properties of the client *)

\* what a condition says of a record (Undefined: no record)
RECURSIVE Holds(_, _)
Holds(c, rec) ==
    CASE c[1] = "=" -> Field(rec, c[2]) = Prim(c[3])
      [] c[1] = "attribute_not_exists" -> Field(rec, c[2]) = Undefined
      [] c[1] = "not" -> ~Holds(c[2], rec)
      [] OTHER -> Holds(c[2], rec) /\ Holds(c[3], rec)

\* the record get would find under the key of record r in table t
RecordAt(t, r) == GetResult(StoredItem(t, writeKey(KeyValueOf(r))))

\* C1: readKey(writeKey(k)) = k for every key value k, of a hash-only key
\* and of a composite key.
C1_KeyRoundTrip ==
    op.name = "readWriteKey" => out.item = op.key

\* C2: a query given a key condition and a filter compiles both, by two
\* writers over one namespace, so that the placeholders of the key condition
\* and those of the filter are disjoint.
C2_SharedNamespace ==
    (op.name = "query" /\ op.cond # 0) =>
        /\ out.error # "TypeError"
        /\ q.filter.Expression # <<>>
        /\ q.keyCond.Expression # <<>>
        /\ Placeholders(q.keyCond.Expression)
             \cap Placeholders(q.filter.Expression) = {}

\* C8: putIf fails with the store's conditional-check error and leaves the
\* table unchanged when the condition does not hold of the item stored under
\* the record's key; when it holds the stored item becomes the record.
C8_PutIf ==
    [][ op'.name = "putIf" =>
          IF Holds(CondList[op'.cond], RecordAt(table, op'.item))
          THEN /\ out'.error = ""
               /\ RecordAt(table', op'.item) = op'.item
               /\ \A i \in table : ItemKey(i) # writeKey(KeyValueOf(op'.item))
                                      => i \in table'
          ELSE /\ out'.error = "ConditionalCheckFailedException"
               /\ table' = table ]_vars

C8_Witness ==
    /\ op.name = "putIf" /\ CondList[op.cond] = <<"=", "val", "2">>
    /\ out.error = "ConditionalCheckFailedException"
    /\ Field(RecordAt(table, op.item), "val") = Prim("1")
    /\ Field(op.item, "val") = Prim("2")

C8_WitnessHolds ==
    /\ op.name = "putIf" /\ CondList[op.cond] = <<"=", "val", "1">>
    /\ out.error = ""
    /\ Field(op.item, "val") = Prim("2") /\ RecordAt(table, op.item) = op.item

\* C9: while every write is a put, get(k) returns the record of the most
\* recent put under k, and undefined, with no error, when there was none.
C9_GetAfterPut ==
    (putsOnly /\ op.name = "get") =>
        /\ out.error = ""
        /\ out.item = lastPut[op.key]

C9_Witness ==
    /\ putsOnly /\ op.name = "get"
    /\ Cardinality(table) = 2
    /\ out.item # Undefined /\ Field(out.item, "val") = Prim("2")

C9_WitnessAbsent ==
    putsOnly /\ op.name = "get" /\ table # {} /\ out.item = Undefined

\* C10: batchPut returns the list of the write requests the store did not
\* persist, the empty list when it persisted all, and every record not in
\* that list can be read back.
C10_BatchPut ==
    op.name = "batchPut" =>
        /\ out.error = ""
        /\ out.defined
        /\ out.list = Unprocessed(BatchPutRequests(op.batch), op.rejected, 1)
        /\ \A i \in 1..Len(op.batch) :
              i \notin op.rejected => RecordAt(table, op.batch[i]) = op.batch[i]

\* the clauses an expression combines by AND
RECURSIVE Conjuncts(_)
Conjuncts(e) ==
    IF e # <<>> /\ e[1] = "and"
    THEN Conjuncts(e[2]) \cup Conjuncts(e[3])
    ELSE {e}

\* the stored records whose hash-key field is hv, as one value
RecordsUnder(t, hv) ==
    UNION { RecordRead(Prop("M", i)) :
              i \in { j \in t : Field(j, key.hk) = MapperWrite(hv) } }

\* C11: every query submits a request whose key condition holds, as a clause
\* combined by AND, the equality of the table's hash-key field with the
\* wire-encoded hash-key value, and returns the stored records of that hash
\* key.
C11_QueryKeyCondition ==
    op.name = "query" =>
        /\ out.error = ""
        /\ q.submitted
        /\ \E c \in Conjuncts(q.request.KeyConditionExpression) :
              /\ c # <<>> /\ c[1] = "="
              /\ Lookup(q.request.ExpressionAttributeNames, c[2], "") = key.hk
              /\ Lookup(q.request.ExpressionAttributeValues, c[3], Undefined)
                   = MapperWrite(op.key)
        /\ out.item = RecordsUnder(table, op.key)

\* C12: the request a query submits gives, in its own name and value maps,
\* every placeholder its key condition and its filter mention.
C12_RequestSelfContained ==
    op.name = "query" =>
        /\ q.submitted
        /\ ExprValid(q.request.KeyConditionExpression,
                     q.request.ExpressionAttributeNames,
                     q.request.ExpressionAttributeValues)
        /\ ExprValid(q.request.FilterExpression,
                     q.request.ExpressionAttributeNames,
                     q.request.ExpressionAttributeValues)

\* C15: a key the store returned, decoded by readKey and passed back
\* unchanged, is encoded by writeKey to the key the store returned, for a
\* hash-only key and for a composite key.
C15_PaginationRoundTrip ==
    op.name = "writeReadKey" => out.item = op.key

-----------------------------------------------------------------------------
(* Properties of the stage chain *)

\* everything stage i's run yields for event ev
RECURSIVE YieldFrom(_, _, _)
YieldFrom(i, g, s) ==
    LET r == pull(i, g, s) IN
    IF r.ok THEN <<r.val>> \o YieldFrom(i, r.g, r.s) ELSE <<>>

Yield(i, ev) == YieldFrom(i, [k \in 1..Top |-> NewGen], ev)

IsMap(i) == stages[i].kind = "flatMap" /\ stages[i].handle[1] = "map"

\* C3: a stage that declared a dependency calls its predecessor's run with
\* the tail of its own client list, a stage that declared none with the same
\* list; so s0 -> s1 (D1) -> s2 (D2) run with [c2, c1] runs s1 with [c1] and
\* s0 with [].
C3_RunPassesTail ==
    pc # "idle" =>
        /\ \A i \in 2..Top :
              runDeps[i - 1] = IF stages[i].depends # NoDep
                               THEN TailOf(runDeps[i]) ELSE runDeps[i]
        /\ ( /\ Top = 3
             /\ stages[2].kind = "flatMap" /\ stages[2].depends = "D1"
             /\ stages[3].kind = "flatMap" /\ stages[3].depends = "D2"
             /\ runDeps[3] = <<Client("D2"), Client("D1")>> )
           => (runDeps[2] = <<Client("D1")>> /\ runDeps[1] = <<>>)

C3_Witness ==
    /\ pc # "idle" /\ Top = 3
    /\ stages[2].depends = "D1" /\ stages[3].depends = "D2"
    /\ runDeps = << <<>>, <<Client("D1")>>, <<Client("D2"), Client("D1")>> >>

\* C4: map(f).map(g) over a stage yielding [x1..xn] yields [g(f(x1))..g(f(xn))];
\* a flatMap stage yields each input's outputs contiguously, in the handler's
\* iteration order, inputs in upstream order.
C4_ChainFusion ==
    pc = "done" =>
        /\ (Top >= 3 /\ IsMap(Top) /\ IsMap(Top - 1)) =>
              LET X == Yield(Top - 2, event)
                  f == stages[Top - 1].handle[2]
                  g == stages[Top].handle[2]
              IN drained = [k \in 1..Len(X) |-> MapHandle(g, MapHandle(f, X[k]))]
        /\ (Top >= 2 /\ stages[Top].kind = "flatMap") =>
              LET X == Yield(Top - 1, event)
              IN drained = Concat([k \in 1..Len(X) |->
                                      FlatHandle(stages[Top].handle, X[k])])

C4_WitnessFlat ==
    /\ pc = "done" /\ Top = 3 /\ Len(event) >= 2
    /\ stages[2].handle = <<"flat", "dup">>
    /\ stages[3].handle = <<"map", "g">>
    /\ Len(drained) = 2 * Len(event)

C4_Witness ==
    /\ pc = "done" /\ Top = 3 /\ event = <<1, 2, 3>>
    /\ stages[2].handle = <<"map", "f">> /\ stages[3].handle = <<"map", "g">>
    /\ drained = << <<"g", <<"f", 1>>>>, <<"g", <<"f", 2>>>>, <<"g", <<"f", 3>>>> >>

\* C5: batched(size), size >= 1, yields non-empty groups whose concatenation
\* is the upstream sequence, each of exactly size elements except possibly
\* the last; batched() yields the whole sequence as one group, or nothing
\* when the sequence is empty.
C5_Batched ==
    (pc = "done" /\ stages[Top].kind = "batched") =>
        LET X == Yield(Top - 1, event)
            size == stages[Top].size
            n == Len(drained)
        IN /\ Concat(drained) = X
           /\ \A k \in 1..n : Len(drained[k]) >= 1
           /\ size >= 1 =>
                 /\ \A k \in 1..(n - 1) : Len(drained[k]) = size
                 /\ n >= 1 => Len(drained[n]) <= size
           /\ size = 0 => drained = IF X = <<>> THEN <<>> ELSE <<X>>

C5_Witness ==
    /\ pc = "done" /\ stages = <<Source, [kind |-> "batched", handle |-> NoHandle,
                                           size |-> 3, depends |-> NoDep,
                                           dependencies |-> 1]>>
    /\ event = <<1, 2, 3, 4, 5>>
    /\ drained = << <<1, 2, 3>>, <<4, 5>> >>

C5_WitnessUnset ==
    /\ pc = "done" /\ Top = 2
    /\ stages[Top].kind = "batched" /\ stages[Top].size = 0
    /\ unit.handle = EachHandler
    /\ event = <<1, 2>> /\ drained = << <<1, 2>> >>

\* C6: the unit made by forEach calls the handler once per value run yields,
\* in order, never two invocations at a time; with a declared dependency the
\* handler gets client 0 and run the remaining clients, with none run gets
\* the whole client list.
C6_ForEach ==
    pc # "idle" =>
        LET Y == Yield(Top, event) IN
        /\ Len(inflight) <= 1
        /\ Len(handleCalls) <= Len(Y)
        /\ \A k \in 1..Len(handleCalls) : handleCalls[k][1] = Y[k]
        /\ pc = "done" => (Len(handleCalls) = Len(Y) /\ inflight = <<>>)
        /\ inflight # <<>> => inflight[1] = handleCalls[Len(handleCalls)][1]
        /\ unit.depends # NoDep =>
              /\ \A k \in 1..Len(handleCalls) : handleCalls[k][2] = Resolved[1]
              /\ runDeps[Top] = TailOf(Resolved)
        /\ unit.depends = NoDep => runDeps[Top] = Resolved

C6_Witness ==
    /\ pc = "done" /\ unit.handle = EachHandler /\ unit.depends = "D2"
    /\ Len(handleCalls) >= 3
    /\ handleCalls[1][2] = Client("D2")
    /\ runDeps[Top] = <<Client("D1")>>

\* C7: toSink's unit depends on the sink followed by the stage's dependencies;
\* an invocation draining a non-empty sequence calls sink.sink once, with all
\* values in order, on client 0; one draining nothing does not call it.
C7_ToSink ==
    (unit.made /\ unit.handle = SinkHandler) =>
        /\ unit.deps = <<SinkDep>> \o arrays[stages[Top - 1].dependencies]
        /\ pc = "done" =>
              LET X == Yield(Top - 1, event) IN
              sinkLog = IF X = <<>> THEN <<>>
                        ELSE << <<X, Client(SinkDep)>> >>
        /\ Len(sinkLog) <= 1

C7_Witness ==
    /\ pc = "done" /\ unit.handle = SinkHandler
    /\ unit.deps = <<SinkDep, "D1">>
    /\ Len(sinkLog) = 1 /\ Len(sinkLog[1][1]) >= 2
    /\ sinkLog[1][2] = Client(SinkDep)

C7_WitnessEmpty ==
    /\ pc = "done" /\ unit.handle = SinkHandler /\ event # <<>> /\ sinkLog = <<>>

\* C13: during run every stage's transformation is given the client of the
\* dependency the stage itself declared, and no client (undefined) when it
\* declared none, whatever the stages upstream of it declared.
C13_OwnClient ==
    pc # "idle" =>
        \A i \in 2..Top :
            fClient[i] = IF stages[i].depends # NoDep
                         THEN Client(stages[i].depends)
                         ELSE UndefinedClient

\* C14: every stage's dependency list is its predecessor's very list exactly
\* when the call declared no dependency, and otherwise a new list holding the
\* declared dependency at index 0 followed by the predecessor's list; its
\* length is the predecessor's plus 0 or 1; and no step changes a stage
\* already made, or the list it holds.
C14_DependencyLists ==
    /\ [](\A i \in 2..Top :
            LET own  == arrays[stages[i].dependencies]
                prev == arrays[stages[i - 1].dependencies]
            IN /\ (stages[i].dependencies = stages[i - 1].dependencies)
                     <=> (stages[i].depends = NoDep)
               /\ stages[i].depends # NoDep => own = <<stages[i].depends>> \o prev
               /\ Len(own) = Len(prev) + (IF stages[i].depends = NoDep THEN 0 ELSE 1))
    /\ [][ /\ Len(stages') >= Len(stages)
           /\ \A i \in 1..Top :
                 /\ stages'[i] = stages[i]
                 /\ arrays'[stages[i].dependencies] = arrays[stages[i].dependencies] ]_vars

C14_Witness ==
    /\ Top = 3
    /\ stages[2].depends = "D1" /\ stages[3].depends = "D2"
    /\ stages[3].dependencies # stages[2].dependencies
    /\ arrays[stages[2].dependencies] = <<"D1">>
    /\ arrays[stages[3].dependencies] = <<"D2", "D1">>

C14_WitnessShared ==
    /\ Top = 3
    /\ stages[2].depends = "D1" /\ stages[3].depends = NoDep
    /\ stages[3].dependencies = stages[2].dependencies

====
